---- MODULE Spec2Model ----
(***************************************************************************)
(* nestcheck: reconstruction of the thread structure of a nested sampling  *)
(* run from its dead points array and the checks of a run dictionary       *)
(* (src/nestcheck/data_processing.py), and the synthetic dead points of    *)
(* src/nestcheck/testing.py.                                               *)
(*                                                                         *)
(* Conventions.  Floats are modelled by integers: only their order and     *)
(* equality are used by the code.  Arrays are sequences, so the numpy      *)
(* index k is the position k + 1 here; thread labels keep their numpy      *)
(* values 0, 1, ...  A row of the samples array is <<theta, logl, birth>>, *)
(* theta standing for all the parameter columns of the row.                *)
(***************************************************************************)
EXTENDS Integers, Sequences, FiniteSets, TLC

VARIABLES
    samples,            \* argument of process_samples_array
    threads,            \* get_dummy_dead_points: the threads the array was built from
    pc,                 \* position in the code
    raised,             \* the exception that ended the call, or NoError
    logl,               \* ns_run['logl'] / argument logl
    theta,              \* ns_run['theta']
    birth_logl,         \* birth_contours / argument birth_logl
    thread_start_logls,
    thread_start_counts,
    thread_labels,
    thread_num,
    nmulti,             \* position in thread_start_logls (from 1)
    i,                  \* position in np.where(birth_logl == multi)[0] (from 1)
    next_ind,           \* the while loop's next_ind
    unique_threads,
    label_pos,          \* position in unique_threads of the assembly loop
    thread_min_max,
    delta_nlive,
    nlive_array,
    entry,              \* the function that was called
    logl_warn_only,     \* argument logl_warn_only / warn_only
    run,                \* argument run of check_ns_run and of its checks
    warned,             \* number of calls of warnings.warn
    checked,            \* the checks called so far, in the order of the calls
    msg,                \* what the message of check_ns_run_logls holds
    pending,            \* the arrays process_samples_array is yet to be called on
    earlier,            \* the arguments and outcomes of the calls that have ended
    file_roots,         \* the file_roots argument of batch_process_data
    errors_to_handle,   \* the error types batch_process_data is told to catch
    files,              \* how process_func ends on the file of each root
    running,            \* the positions in file_roots not yet processed
    data,               \* what parallel_apply has collected so far
    result              \* what batch_process_data returned

\* the samples and the locals of process_samples_array and of
\* threads_given_birth_contours
arrayVars == <<samples, threads, logl, theta, birth_logl, thread_start_logls,
               thread_start_counts, thread_labels, thread_num, nmulti, i,
               next_ind, unique_threads, label_pos, thread_min_max,
               delta_nlive, nlive_array>>

\* the call, its arguments and what the checks of a run leave behind
batchVars == <<file_roots, errors_to_handle, files, running, data, result>>

callVars ==
    <<entry, logl_warn_only, run, warned, checked, msg, pending, earlier,
      batchVars>>

vars == <<samples, threads, pc, raised, logl, theta, birth_logl,
          thread_start_logls, thread_start_counts, thread_labels, thread_num,
          nmulti, i, next_ind, unique_threads, label_pos, thread_min_max,
          delta_nlive, nlive_array, entry, logl_warn_only, run, warned,
          checked, msg, pending, earlier, file_roots, errors_to_handle, files,
          running, data, result>>

---------------------------------------------------------------------------
(* Bounds of the model. *)

\* rows of an arbitrary samples array
MaxRows == 3
\* samples of a synthetic run built from threads
MaxPoints == 5

\* rows of an array processed twice, in two row orders or with two values
\* of the initial birth contour
MaxTwin == 2
\* samples of a candidate run handed to check_ns_run
MaxRun == 2
\* samples of a run handed to check_ns_run_logls alone
MaxLogls == 3
\* samples of a candidate run whose logl is in strictly ascending order
MaxOrdered == 3

\* log-likelihood values of an arbitrary samples array
LoglValues == 1 .. MaxRows
\* birth contour values of an arbitrary samples array
BirthValues == 0 .. MaxRows

---------------------------------------------------------------------------
(* Values of the code. *)

\* -np.inf
NegInf == -1
\* np.nan, the label of a sample not yet assigned
NaN == -1
\* the birth contour get_dummy_dead_points writes for a point sampled from the prior
PriorBirth == 0

NoError == [exc |-> "", line |-> 0]
AssertionError(ln) == [exc |-> "AssertionError", line |-> ln]
IndexError(ln) == [exc |-> "IndexError", line |-> ln]
AttributeError(ln) == [exc |-> "AttributeError", line |-> ln]
ValueError(ln) == [exc |-> "ValueError", line |-> ln]

---------------------------------------------------------------------------
(* numpy helpers *)

Range(s) == {s[k] : k \in DOMAIN s}

Min(S) == CHOOSE x \in S : \A y \in S : x <= y

RECURSIVE SortSet(_)
\* the elements of a set of numbers in ascending order
SortSet(S) == IF S = {} THEN <<>>
              ELSE <<Min(S)>> \o SortSet(S \ {Min(S)})

RECURSIVE Sum(_)
Sum(s) == IF s = <<>> THEN 0 ELSE Head(s) + Sum(Tail(s))

\* np.unique(arr)
Unique(arr) == SortSet(Range(arr))

\* np.where(arr == v)[0]: the positions holding v, ascending
WhereEq(arr, v) == SortSet({k \in DOMAIN arr : arr[k] = v})

\* (arr == v).sum()
CountEq(arr, v) == Cardinality({k \in DOMAIN arr : arr[k] = v})

\* np.asarray(range(m)) as a sequence
PyRange(m) == [k \in 1 .. m |-> k - 1]

\* np.argsort(arr[:, col]) applied to the rows: row r goes to the position
\* given by the number of rows that sort before it (the sort numpy uses for
\* short arrays is an insertion sort, which keeps equal keys in order)
ArgsortPos(rows, col, r) ==
    1 + Cardinality({q \in DOMAIN rows :
                       \/ rows[q][col] < rows[r][col]
                       \/ rows[q][col] = rows[r][col] /\ q < r})

\* faulty variant of SortRows: the column sorted, the others left in place
SortColumnOnly(rows, col) ==
    [p \in DOMAIN rows |->
        [rows[p] EXCEPT ![col] =
            rows[CHOOSE r \in DOMAIN rows : ArgsortPos(rows, col, r) = p][col]]]

SortRows(rows, col) ==
    [p \in DOMAIN rows |->
        rows[CHOOSE r \in DOMAIN rows : ArgsortPos(rows, col, r) = p]]

Column(rows, col) == [k \in DOMAIN rows |-> rows[k][col]]

\* faulty variant of Asserted: assert statements compiled away (python -O)
AssertSkipped(cond) == TRUE

\* the assert statement: the call goes on exactly when the condition holds
Asserted(cond) == cond

---------------------------------------------------------------------------
(* Initial states: a call process_polychord_run(file_root, base_dir,        *)
(* logl_warn_only), samples being the array read from the file (line 192). *)

\* the keys a run must have (check_ns_run_members)
MandatoryKeys == {"logl", "nlive_array", "theta", "thread_labels", "thread_min_max"}

\* a run dictionary: its keys, which of its members are numpy arrays, their
\* ndim, the dtype of thread_labels and the arrays themselves
RunDict(keys, ndarrays, ndim, dtype, l, nlive, th, labels, min_max) ==
    [dict |-> TRUE, keys |-> keys, ndarrays |-> ndarrays, ndim |-> ndim,
     dtype |-> dtype, logl |-> l, nlive_array |-> nlive, theta |-> th,
     thread_labels |-> labels, thread_min_max |-> min_max]

\* the ndim of the members of a run as process_samples_array makes them
RunNdim == [key \in MandatoryKeys |->
               IF key \in {"theta", "thread_min_max"} THEN 2 ELSE 1]

\* no run yet
NoRun == RunDict({}, {}, RunNdim, "int", <<>>, <<>>, <<>>, <<>>, <<>>)

\* no message: the parts of the message of check_ns_run_logls are the number
\* of repeats, the repeated values and, when detail is given, their counts,
\* the indices of the samples with the first repeated value and the number
\* of samples
NoMessage ==
    [repeats |-> 0, values |-> <<>>, detail |-> FALSE, counts |-> <<>>,
     inds |-> <<>>, out_of |-> 0]

\* batch_process_data not called
NoBatch ==
    /\ file_roots = <<>> /\ errors_to_handle = {} /\ files = <<>>
    /\ running = {} /\ data = <<>> /\ result = <<>>

\* nothing raised, no local assigned, no check called
NoLocals ==
    /\ NoBatch
    /\ raised = NoError
    /\ theta = <<>>
    /\ thread_start_logls = <<>> /\ thread_start_counts = <<>>
    /\ thread_labels = <<>> /\ thread_num = 0 /\ nmulti = 0 /\ i = 0
    /\ next_ind = <<>> /\ unique_threads = <<>> /\ label_pos = 0
    /\ thread_min_max = <<>> /\ delta_nlive = <<>> /\ nlive_array = <<>>
    /\ warned = 0 /\ checked = <<>> /\ msg = NoMessage
    /\ earlier = <<>>

Locals0 ==
    /\ pc = "process_samples_array"
    /\ logl = <<>> /\ birth_logl = <<>>
    /\ run = NoRun
    /\ NoLocals

\* an arbitrary array of at most MaxRows rows [theta, logl, birth_logl], in
\* any row order; theta is the row's own tag
InitArray ==
    /\ \E n \in 0 .. MaxRows :
         \E l \in [1 .. n -> LoglValues], b \in [1 .. n -> BirthValues] :
            samples = [k \in 1 .. n |-> <<k, l[k], b[k]>>]
    /\ threads = <<>>
    /\ entry = "process_polychord_run"
    /\ logl_warn_only \in BOOLEAN
    /\ pending = <<>>
    /\ Locals0

---------------------------------------------------------------------------
(* testing.py: a synthetic run built from threads, and its dead points. *)

\* get_dummy_ns_thread, lines 102-109: a thread with the ascending
\* log-likelihoods ls, all above logl_start, labelled by its place in the
\* list of threads (line 137)
DummyThread(ls, logl_start, place) ==
    [logl |-> ls,
     thread_labels |-> place - 1,
     thread_min_max |-> <<logl_start, ls[Len(ls)]>>]

\* lines 140-148: the dead points of one thread; the first point is born on
\* the thread's start (PriorBirth for a start from the prior), every other
\* point on the log-likelihood of the point before it
DeadOfThread(th) ==
    [k \in DOMAIN th.logl |->
        <<th.logl[k],
          th.logl[k],
          IF k > 1 THEN th.logl[k - 1]
          ELSE IF th.thread_min_max[1] = NegInf THEN PriorBirth
          ELSE th.thread_min_max[1]>>]

RECURSIVE Vstack(_)
\* np.vstack(dead_arrs), line 149
Vstack(arrs) == IF arrs = <<>> THEN <<>> ELSE Head(arrs) \o Vstack(Tail(arrs))

\* lines 138-150: the dead points array of a list of threads
DummyDeadPoints(ths) ==
    SortRows(Vstack([t \in DOMAIN ths |-> DeadOfThread(ths[t])]), 2)

\* the list of threads of lines 118-137, for any number of threads and of
\* points in each: n points with log-likelihoods 1 .. n (all distinct, as
\* random floats are), of which point k is in thread lab[k], thread t
\* starting on st[t]
ThreadsOf(n, lab, st) ==
    [t \in 1 .. Cardinality(Range(lab)) |->
        DummyThread(SortSet({k \in 1 .. n : lab[k] = t - 1}), st[t - 1], t)]

\* threads are numbered in the order of their first points, as in lines
\* 118-137
OrderedLabels(n, lab) ==
    /\ lab[1] = 0
    /\ \A k \in 2 .. n : \E j \in 1 .. k - 1 : lab[k] <= lab[j] + 1

\* a thread starts from the prior or on the log-likelihood of a point of
\* another thread, below its own first point
StartsBelow(n, lab, st) ==
    \A t \in Range(lab) :
        st[t] = NegInf \/ st[t] < Min({k \in 1 .. n : lab[k] = t})

\* a run of at most MaxPoints points built from threads, and the call
\* process_samples_array(dead) on its dead points
InitDummy ==
    /\ \E n \in 1 .. MaxPoints :
         \E lab \in [1 .. n -> 0 .. n - 1] :
            /\ OrderedLabels(n, lab)
            /\ \E st \in [Range(lab) -> {NegInf} \cup 1 .. n] :
                  /\ StartsBelow(n, lab, st)
                  /\ threads = ThreadsOf(n, lab, st)
                  /\ samples = DummyDeadPoints(ThreadsOf(n, lab, st))
    /\ entry = "process_polychord_run"
    /\ logl_warn_only \in BOOLEAN
    /\ pending = <<>>
    /\ Locals0

Raise(e) == pc' = "raised" /\ raised' = e

---------------------------------------------------------------------------
(* process_samples_array, lines 318-326 *)

Normalize ==
    /\ pc = "process_samples_array"
    /\ LET sorted == SortRows(samples, 2)
           repeat_logls == Len(sorted) - Len(Unique(Column(sorted, 2)))
       IN  /\ logl' = Column(sorted, 2)
           /\ IF Asserted(repeat_logls = 0)
              THEN /\ theta' = Column(sorted, 1)
                   /\ birth_logl' = Column(sorted, 3)
                   /\ pc' = "threads_given_birth_contours"
                   /\ raised' = raised
              ELSE /\ Raise(AssertionError(323))
                   /\ UNCHANGED <<theta, birth_logl>>
    /\ UNCHANGED callVars
    /\ UNCHANGED <<samples, threads, thread_start_logls, thread_start_counts,
                   thread_labels, thread_num, nmulti, i, next_ind,
                   unique_threads, label_pos, thread_min_max, delta_nlive,
                   nlive_array>>

---------------------------------------------------------------------------
(* threads_given_birth_contours *)

\* faulty variant of init_birth: one fixed number taken for the initial contour
HardCodedBirth == PriorBirth

init_birth == birth_logl[1]

\* faulty variant of BirthBelow: a sample may be born on its own logl
BirthBelowOrOn(k) == birth_logl[k] <= logl[k]

\* the two assertions of the loop of lines 390-392, for sample k
BirthBelow(k) == birth_logl[k] < logl[k]

\* faulty variant of BirthMatches: a contour may be the logl of several samples
BirthMatchesSome(k) ==
    birth_logl[k] = init_birth \/ Len(WhereEq(logl, birth_logl[k])) >= 1

BirthMatches(k) ==
    birth_logl[k] = init_birth \/ Len(WhereEq(logl, birth_logl[k])) = 1

\* lines 389-392
CheckBirths ==
    /\ pc = "threads_given_birth_contours"
    /\ IF Len(birth_logl) = 0
       THEN Raise(IndexError(389))
       ELSE LET bad == {k \in DOMAIN birth_logl :
                            ~Asserted(BirthBelow(k)) \/ ~Asserted(BirthMatches(k))}
            IN  IF bad = {}
                THEN pc' = "count_starts" /\ raised' = raised
                ELSE Raise(AssertionError(
                        IF ~Asserted(BirthBelow(Min(bad))) THEN 391 ELSE 392))
    /\ UNCHANGED callVars
    /\ UNCHANGED <<samples, threads, logl, theta, birth_logl,
                   thread_start_logls, thread_start_counts, thread_labels,
                   thread_num, nmulti, i, next_ind, unique_threads, label_pos,
                   thread_min_max, delta_nlive, nlive_array>>

\* faulty variant of BornOn: the samples born on contour c, last in the array first
BornOnReversed(c) ==
    [k \in 1 .. CountEq(birth_logl, c) |->
        WhereEq(birth_logl, c)[CountEq(birth_logl, c) + 1 - k]]

\* np.where(birth_logl == c)[0]: the samples born on contour c, in array order
BornOn(c) == WhereEq(birth_logl, c)

\* faulty variant of SplitContours: the split contours in descending order
SplitContoursDescending ==
    LET asc == SelectSeq(Unique(SelectSeq(birth_logl, LAMBDA b : b # init_birth)),
                         LAMBDA c : CountEq(birth_logl, c) > 1)
    IN  [k \in DOMAIN asc |-> asc[Len(asc) + 1 - k]]

\* unique[np.where(counts > 1)], lines 393-396: the contours other than
\* init_birth on which more than one sample is born, ascending
SplitContours ==
    SelectSeq(Unique(SelectSeq(birth_logl, LAMBDA b : b # init_birth)),
              LAMBDA c : CountEq(birth_logl, c) > 1)

\* lines 395-396
ThreadStartLogls == <<init_birth>> \o SplitContours

\* lines 397-399
ThreadStartCounts ==
    <<CountEq(birth_logl, init_birth)>> \o
    [k \in DOMAIN SplitContours |-> CountEq(birth_logl, SplitContours[k]) - 1]

\* lines 393-401
CountStarts ==
    /\ pc = "count_starts"
    /\ thread_start_logls' = ThreadStartLogls
    /\ thread_start_counts' = ThreadStartCounts
    /\ thread_labels' = [k \in DOMAIN logl |-> NaN]
    /\ thread_num' = 0
    /\ nmulti' = 1
    /\ i' = 1
    /\ pc' = "for_start_ind"
    /\ UNCHANGED callVars
    /\ UNCHANGED <<samples, threads, raised, logl, theta, birth_logl, next_ind,
                   unique_threads, label_pos, thread_min_max, delta_nlive,
                   nlive_array>>

\* np.where(birth_logl == multi)[0] of line 403
StartInds == BornOn(thread_start_logls[nmulti])

\* line 406: the i-th sample born on the contour starts a thread
StartsThread == i # 1 \/ nmulti = 1

\* line 403, the contour's samples are exhausted: the next contour of line 402
NextContour ==
    /\ pc = "for_start_ind"
    /\ i > Len(StartInds)
    /\ nmulti < Len(thread_start_logls)
    /\ nmulti' = nmulti + 1
    /\ i' = 1
    /\ UNCHANGED callVars
    /\ UNCHANGED <<samples, threads, pc, raised, logl, theta, birth_logl,
                   thread_start_logls, thread_start_counts, thread_labels,
                   thread_num, next_ind, unique_threads, label_pos,
                   thread_min_max, delta_nlive, nlive_array>>

\* lines 403-406: the first sample born on a split contour is passed over
SkipFirstBorn ==
    /\ pc = "for_start_ind"
    /\ i <= Len(StartInds)
    /\ ~StartsThread
    /\ i' = i + 1
    /\ UNCHANGED callVars
    /\ UNCHANGED <<samples, threads, pc, raised, logl, theta, birth_logl,
                   thread_start_logls, thread_start_counts, thread_labels,
                   thread_num, nmulti, next_ind, unique_threads, label_pos,
                   thread_min_max, delta_nlive, nlive_array>>

\* lines 406-411: a sample starts thread thread_num
StartThread ==
    /\ pc = "for_start_ind"
    /\ i <= Len(StartInds)
    /\ StartsThread
    /\ LET start_ind == StartInds[i]
       IN  IF Asserted(thread_labels[start_ind] = NaN)
           THEN /\ thread_labels' = [thread_labels EXCEPT ![start_ind] = thread_num]
                /\ next_ind' = BornOn(logl[start_ind])
                /\ pc' = "while"
                /\ raised' = raised
           ELSE /\ Raise(AssertionError(408))
                /\ UNCHANGED <<thread_labels, next_ind>>
    /\ UNCHANGED callVars
    /\ UNCHANGED <<samples, threads, logl, theta, birth_logl,
                   thread_start_logls, thread_start_counts, thread_num, nmulti,
                   i, unique_threads, label_pos, thread_min_max, delta_nlive,
                   nlive_array>>

\* lines 412-417: one pass of the while loop
WalkStep ==
    /\ pc = "while"
    /\ next_ind # <<>>
    /\ IF Asserted(thread_labels[next_ind[1]] = NaN)
       THEN /\ thread_labels' = [thread_labels EXCEPT ![next_ind[1]] = thread_num]
            /\ next_ind' = BornOn(logl[next_ind[1]])
            /\ UNCHANGED <<pc, raised>>
       ELSE /\ Raise(AssertionError(414))
            /\ UNCHANGED <<thread_labels, next_ind>>
    /\ UNCHANGED callVars
    /\ UNCHANGED <<samples, threads, logl, theta, birth_logl,
                   thread_start_logls, thread_start_counts, thread_num, nmulti,
                   i, unique_threads, label_pos, thread_min_max, delta_nlive,
                   nlive_array>>

\* lines 412 and 418: the walk has ended
EndWalk ==
    /\ pc = "while"
    /\ next_ind = <<>>
    /\ thread_num' = thread_num + 1
    /\ i' = i + 1
    /\ pc' = "for_start_ind"
    /\ UNCHANGED callVars
    /\ UNCHANGED <<samples, threads, raised, logl, theta, birth_logl,
                   thread_start_logls, thread_start_counts, thread_labels,
                   nmulti, next_ind, unique_threads, label_pos, thread_min_max,
                   delta_nlive, nlive_array>>

\* the condition of the assertion of lines 430-434
LabelsAreRange ==
    Unique(thread_labels) = PyRange(Sum(thread_start_counts))

\* lines 419-435, after the last contour of line 402 (the labels assigned
\* are whole numbers, so the assertion of line 426 holds and astype(int)
\* changes no value)
ReturnLabels ==
    /\ pc = "for_start_ind"
    /\ i > Len(StartInds)
    /\ nmulti = Len(thread_start_logls)
    /\ IF ~Asserted(\A k \in DOMAIN thread_labels : thread_labels[k] # NaN)
       THEN Raise(AssertionError(419))
       ELSE IF ~Asserted(LabelsAreRange)
            THEN Raise(AssertionError(430))
            ELSE pc' = "unique_threads" /\ raised' = raised
    /\ UNCHANGED callVars
    /\ UNCHANGED <<samples, threads, logl, theta, birth_logl,
                   thread_start_logls, thread_start_counts, thread_labels,
                   thread_num, nmulti, i, next_ind, unique_threads, label_pos,
                   thread_min_max, delta_nlive, nlive_array>>

---------------------------------------------------------------------------
(* process_samples_array, lines 327-359 *)

\* lines 329-339
BeginAssemble ==
    /\ pc = "unique_threads"
    /\ entry # "threads_given_birth_contours"
    /\ unique_threads' = Unique(thread_labels)
    /\ IF Asserted(Unique(thread_labels) = PyRange(Len(Unique(thread_labels))))
       THEN /\ thread_min_max' = [t \in 1 .. Len(Unique(thread_labels)) |-> <<0, 0>>]
            /\ delta_nlive' = [k \in 1 .. Len(samples) + 1 |-> 0]
            /\ label_pos' = 1
            /\ pc' = "for_label"
            /\ raised' = raised
       ELSE /\ Raise(AssertionError(330))
            /\ UNCHANGED <<thread_min_max, delta_nlive, label_pos>>
    /\ UNCHANGED callVars
    /\ UNCHANGED <<samples, threads, logl, theta, birth_logl,
                   thread_start_logls, thread_start_counts, thread_labels,
                   thread_num, nmulti, i, next_ind, nlive_array>>

\* arr[k] += d
AddAt(arr, k, d) == [arr EXCEPT ![k] = @ + d]

\* faulty variant of MinMaxRow: the thread's maximum taken from its first sample
MinMaxRowOfFirst(first, last) ==
    <<IF birth_logl[first] = birth_logl[1] THEN NegInf ELSE birth_logl[first],
      logl[first]>>

\* lines 343 and 348-353: the row of thread_min_max of a thread whose first
\* sample is at position first and whose last sample is at position last
MinMaxRow(first, last) ==
    <<IF birth_logl[first] = birth_logl[1] THEN NegInf ELSE birth_logl[first],
      logl[last]>>

\* faulty variant of DeltaEnd: the thread's end counted at its last sample
DeltaEndAtLast(delta, last) == AddAt(delta, last, -1)

\* line 347: the thread's end, one place after its last sample
DeltaEnd(delta, last) == AddAt(delta, last + 1, -1)

\* faulty variant of DeltaStart: the thread's start counted at the sample at birth_ind
DeltaStartAtBirth(delta, first, birth_ind) ==
    IF birth_logl[first] = birth_logl[1]
    THEN AddAt(delta, 1, 1)
    ELSE AddAt(delta, birth_ind[1], 1)

\* faulty variant of DeltaStart: the threads born on the initial contour not counted
DeltaStartNoPrior(delta, first, birth_ind) ==
    IF birth_logl[first] = birth_logl[1]
    THEN delta
    ELSE AddAt(delta, birth_ind[1] + 1, 1)

\* lines 348-356: the thread's start, at place 0 for a thread born on the
\* initial contour and else one place after the sample at birth_ind
DeltaStart(delta, first, birth_ind) ==
    IF birth_logl[first] = birth_logl[1]
    THEN AddAt(delta, 1, 1)
    ELSE AddAt(delta, birth_ind[1] + 1, 1)

\* lines 340-356: one pass of the loop over the thread labels
AssembleThread ==
    /\ pc = "for_label"
    /\ label_pos <= Len(unique_threads)
    /\ LET label == unique_threads[label_pos]
           inds == WhereEq(thread_labels, label)
           first == inds[1]
           last == inds[Len(inds)]
           birth_ind == WhereEq(logl, birth_logl[first])
       IN  IF label \notin 0 .. Len(thread_min_max) - 1
           THEN /\ Raise(IndexError(343))
                /\ UNCHANGED <<thread_min_max, delta_nlive, label_pos>>
           ELSE IF birth_logl[first] # birth_logl[1] /\ ~Asserted(Len(birth_ind) = 1)
           THEN /\ Raise(AssertionError(355))
                /\ UNCHANGED <<thread_min_max, delta_nlive, label_pos>>
           ELSE IF birth_logl[first] # birth_logl[1] /\ birth_ind = <<>>
           THEN /\ Raise(IndexError(356))
                /\ UNCHANGED <<thread_min_max, delta_nlive, label_pos>>
           ELSE /\ thread_min_max' =
                      [thread_min_max EXCEPT ![label + 1] = MinMaxRow(first, last)]
                /\ delta_nlive' =
                      DeltaStart(DeltaEnd(delta_nlive, last), first, birth_ind)
                /\ label_pos' = label_pos + 1
                /\ UNCHANGED <<pc, raised>>
    /\ UNCHANGED callVars
    /\ UNCHANGED <<samples, threads, logl, theta, birth_logl,
                   thread_start_logls, thread_start_counts, thread_labels,
                   thread_num, nmulti, i, next_ind, unique_threads, nlive_array>>

\* faulty variant of CumSumButLast: the last cumulative value kept
CumSumAll(arr) == [k \in 1 .. Len(arr) |-> Sum(SubSeq(arr, 1, k))]

\* np.cumsum(arr)[:-1]
CumSumButLast(arr) == [k \in 1 .. Len(arr) - 1 |-> Sum(SubSeq(arr, 1, k))]

\* lines 357-359: the run is returned
ReturnRun ==
    /\ pc = "for_label"
    /\ label_pos > Len(unique_threads)
    /\ nlive_array' = CumSumButLast(delta_nlive)
    /\ pc' = "done"
    /\ UNCHANGED callVars
    /\ UNCHANGED <<samples, threads, raised, logl, theta, birth_logl,
                   thread_start_logls, thread_start_counts, thread_labels,
                   thread_num, nmulti, i, next_ind, unique_threads, label_pos,
                   thread_min_max, delta_nlive>>

---------------------------------------------------------------------------

(* process_polychord_run, lines 193-203: the run process_samples_array     *)
(* returned gets its output member and is handed to check_ns_run.          *)

\* the dictionary process_samples_array returns; thread_labels has been
\* through astype(int) in threads_given_birth_contours
NsRun ==
    RunDict(MandatoryKeys, MandatoryKeys, RunNdim, "int", logl, nlive_array,
            theta, thread_labels, thread_min_max)

AddOutput ==
    /\ pc = "done"
    /\ entry = "process_polychord_run"
    /\ run' = [NsRun EXCEPT !.keys = @ \cup {"output"}]
    /\ pc' = "check_ns_run"
    /\ UNCHANGED <<arrayVars, raised, entry, logl_warn_only, warned, checked,
                   msg, pending, earlier, batchVars>>

---------------------------------------------------------------------------
(* process_samples_array called on one array after another, each call on   *)
(* its own array and with its own locals.                                  *)

\* what a call of process_samples_array was given and how it ended: the
\* exception it raised, or the run it returned
Outcome ==
    [samples |-> samples,
     raised |-> raised,
     run |-> IF pc = "done" THEN NsRun ELSE NoRun]

\* the call has ended and the next array is processed
CallAgain ==
    /\ entry = "process_samples_array"
    /\ pc \in {"done", "raised"}
    /\ pending # <<>>
    /\ earlier' = Append(earlier, Outcome)
    /\ samples' = Head(pending)
    /\ pending' = Tail(pending)
    /\ pc' = "process_samples_array"
    /\ raised' = NoError
    /\ logl' = <<>> /\ birth_logl' = <<>> /\ theta' = <<>>
    /\ thread_start_logls' = <<>> /\ thread_start_counts' = <<>>
    /\ thread_labels' = <<>> /\ thread_num' = 0 /\ nmulti' = 0 /\ i' = 0
    /\ next_ind' = <<>> /\ unique_threads' = <<>> /\ label_pos' = 0
    /\ thread_min_max' = <<>> /\ delta_nlive' = <<>> /\ nlive_array' = <<>>
    /\ UNCHANGED <<threads, entry, logl_warn_only, run, warned, checked, msg,
                   batchVars>>

---------------------------------------------------------------------------
(* check_ns_run and its three checks, lines 442-575 *)

\* the keys a run may have besides the mandatory ones
OptionalKeys == {"output"}

\* run[key].shape; the length of a second axis plays no part in the checks
Shape(r, key) ==
    IF r.ndim[key] = 1 THEN <<Len(r[key])>> ELSE <<Len(r[key]), 1>>

\* check_ns_run_members, lines 481-505: the exception it ends with, if any
MembersError(r) ==
    IF ~r.dict THEN AttributeError(481)
    ELSE IF ~Asserted(MandatoryKeys \subseteq r.keys) THEN AssertionError(485)
    ELSE IF ~(MandatoryKeys \subseteq r.keys) THEN ValueError(486)
    ELSE IF ~Asserted(r.keys \ (MandatoryKeys \cup OptionalKeys) = {})
         THEN AssertionError(494)
    ELSE IF ~Asserted(MandatoryKeys \subseteq r.ndarrays)
         THEN AssertionError(498)
    ELSE IF ~Asserted(r.ndim["logl"] = 1) THEN AssertionError(501)
    ELSE IF ~Asserted(Shape(r, "logl") = Shape(r, "nlive_array"))
         THEN AssertionError(502)
    ELSE IF ~Asserted(Shape(r, "logl") = Shape(r, "thread_labels"))
         THEN AssertionError(503)
    ELSE IF ~Asserted(r.ndim["theta"] = 2) THEN AssertionError(504)
    ELSE IF ~Asserted(Shape(r, "logl")[1] = Shape(r, "theta")[1])
         THEN AssertionError(505)
    ELSE NoError

\* check_ns_run, line 461, and the call of check_ns_run_members of line 462
CheckMembers ==
    /\ pc = "check_ns_run"
    /\ IF ~Asserted(run.dict)
       THEN /\ Raise(AssertionError(461))
            /\ checked' = checked
       ELSE /\ checked' = Append(checked, "check_ns_run_members")
            /\ IF MembersError(run) = NoError
               THEN pc' = "check_ns_run_logls" /\ raised' = raised
               ELSE Raise(MembersError(run))
    /\ UNCHANGED <<arrayVars, entry, logl_warn_only, run, warned, msg,
                   pending, earlier, batchVars>>

\* arr[np.argsort(arr)]
Argsorted(arr) == Column(SortRows([k \in DOMAIN arr |-> <<arr[k]>>], 1), 1)

\* faulty variant of RepeatLogls: repeated values never counted
NoRepeatLogls(l) == 0

\* lines 523-524: the number of samples less the number of distinct values
RepeatLogls(l) == Len(l) - Len(Unique(l))

\* faulty variant of WarnOnly: the relaxed mode never taken
NeverWarnOnly(warn_only) == FALSE

\* line 536: the mode of check_ns_run_logls
WarnOnly(warn_only) == warn_only

\* check_ns_run_logls, lines 522-540: the exception it ends with, if any
LoglsError(r, warn_only) ==
    IF ~Asserted(r.logl = Argsorted(r.logl)) THEN AssertionError(522)
    ELSE IF ~WarnOnly(warn_only) /\ ~Asserted(RepeatLogls(r.logl) = 0)
         THEN AssertionError(537)
    ELSE NoError

\* lines 538-540: the calls of warnings.warn of check_ns_run_logls
LoglsWarnings(r, warn_only) ==
    IF WarnOnly(warn_only) /\ RepeatLogls(r.logl) # 0 THEN 1 ELSE 0

\* lines 525-535: the message on the repeated values of l; the indices
\* are numpy's, one less than the positions
LoglsMessage(l) ==
    LET logl_u == Unique(l)
        repeated == SortSet({v \in Range(l) : CountEq(l, v) > 1})
    IN  IF Len(logl_u) # 1
        THEN [repeats |-> RepeatLogls(l),
              values |-> repeated,
              detail |-> TRUE,
              counts |-> [p \in DOMAIN repeated |-> CountEq(l, repeated[p])],
              inds |-> [p \in 1 .. CountEq(l, repeated[1]) |->
                           WhereEq(l, repeated[1])[p] - 1],
              out_of |-> Len(l)]
        ELSE [NoMessage EXCEPT !.repeats = RepeatLogls(l),
                               !.values = repeated]

\* check_ns_run_logls(run, warn_only), called on its own or from line 463;
\* the message is that of the AssertionError of line 537 or of the warning
CheckLogls ==
    /\ pc = "check_ns_run_logls"
    /\ checked' = Append(checked, "check_ns_run_logls")
    /\ IF LoglsError(run, logl_warn_only) = NoError
       THEN /\ warned' = warned + LoglsWarnings(run, logl_warn_only)
            /\ msg' = IF LoglsWarnings(run, logl_warn_only) # 0
                      THEN LoglsMessage(run.logl) ELSE msg
            /\ pc' = IF entry = "check_ns_run_logls" THEN "returned"
                     ELSE "check_ns_run_threads"
            /\ raised' = raised
       ELSE /\ Raise(LoglsError(run, logl_warn_only))
            /\ msg' = IF LoglsError(run, logl_warn_only) = AssertionError(537)
                      THEN LoglsMessage(run.logl) ELSE msg
            /\ warned' = warned
    /\ UNCHANGED <<arrayVars, entry, logl_warn_only, run, pending, earlier,
                   batchVars>>

\* faulty variant of FirstAbove: a thread may start on its own first sample
FirstNotBelow(birth, first_logl) == birth <= first_logl

\* line 570: the thread's first sample is above the contour it was born on
FirstAbove(birth, first_logl) == birth < first_logl

\* lines 567-575, one pass of the loop over uniq_th: the assertion that
\* fails for the label th_lab, if any
ThreadError(r, th_lab) ==
    LET inds == WhereEq(r.thread_labels, th_lab)
        row == r.thread_min_max[th_lab + 1]
    IN  IF ~Asserted(FirstAbove(row[1], r.logl[inds[1]]))
        THEN AssertionError(570)
        ELSE IF ~Asserted(row[2] = r.logl[inds[Len(inds)]])
        THEN AssertionError(573)
        ELSE NoError

\* check_ns_run_threads, lines 557-575: the exception it ends with, if any
ThreadsError(r) ==
    LET uniq_th == Unique(r.thread_labels)
        failing == {t \in Range(uniq_th) : ThreadError(r, t) # NoError}
    IN  IF ~Asserted(r.dtype = "int") THEN AssertionError(557)
        ELSE IF ~Asserted(PyRange(Len(r.thread_min_max)) = uniq_th)
        THEN AssertionError(559)
        ELSE IF ~Asserted(\E t \in DOMAIN r.thread_min_max :
                            r.thread_min_max[t][1] = NegInf)
        THEN AssertionError(563)
        ELSE IF failing = {} THEN NoError
        ELSE ThreadError(r, Min(failing))

\* check_ns_run, lines 461-464: the check that raises on the run r, if any
FailingCheck(r, warn_only) ==
    IF ~Asserted(r.dict) \/ MembersError(r) # NoError
    THEN "check_ns_run_members"
    ELSE IF LoglsError(r, warn_only) # NoError THEN "check_ns_run_logls"
    ELSE IF ThreadsError(r) # NoError THEN "check_ns_run_threads"
    ELSE ""

\* check_ns_run_threads(run), called on its own or from line 464; when it
\* returns, so does the function that was called
CheckThreads ==
    /\ pc = "check_ns_run_threads"
    /\ checked' = Append(checked, "check_ns_run_threads")
    /\ IF ThreadsError(run) = NoError
       THEN pc' = "returned" /\ raised' = raised
       ELSE Raise(ThreadsError(run))
    /\ UNCHANGED <<arrayVars, entry, logl_warn_only, run, warned, msg,
                   pending, earlier, batchVars>>

---------------------------------------------------------------------------
(* Initial states: a call threads_given_birth_contours(logl, birth_logl). *)

\* arrays of at most MaxRows samples in ascending order of logl, equal
\* values of logl allowed
InitContours ==
    /\ \E n \in 0 .. MaxRows :
         \E l \in [1 .. n -> LoglValues], b \in [1 .. n -> BirthValues] :
            /\ \A k \in 1 .. n - 1 : l[k] <= l[k + 1]
            /\ logl = l
            /\ birth_logl = b
    /\ samples = <<>> /\ threads = <<>>
    /\ entry = "threads_given_birth_contours"
    /\ pc = "threads_given_birth_contours"
    /\ pending = <<>>
    /\ logl_warn_only = FALSE
    /\ run = NoRun
    /\ NoLocals

\* the six samples logl = [1, 2, 3, 4, 5, 6],
\* birth_logl = [-inf, -inf, 1, 2, 4, 4]
ScenarioLogl == <<1, 2, 3, 4, 5, 6>>
ScenarioBirth == <<NegInf, NegInf, 1, 2, 4, 4>>

InitScenario ==
    /\ logl = ScenarioLogl
    /\ birth_logl = ScenarioBirth
    /\ samples = <<>> /\ threads = <<>>
    /\ entry = "threads_given_birth_contours"
    /\ pc = "threads_given_birth_contours"
    /\ pending = <<>>
    /\ logl_warn_only = FALSE
    /\ run = NoRun
    /\ NoLocals

---------------------------------------------------------------------------

(* Initial states: process_samples_array called on an array and then on  *)
(* the same rows in another order, or with another initial birth contour. *)

\* the rows in the order given by the permutation p of their positions
Permuted(rows, p) == [k \in DOMAIN rows |-> rows[p[k]]]

\* the birth contour of the row with the lowest logl, which the code takes
\* for the initial contour
InitialContour(rows) == SortRows(rows, 2)[1][3]

\* the rows with every occurrence of the initial contour replaced by v
WithInitialContour(rows, v) ==
    [k \in DOMAIN rows |->
        <<rows[k][1], rows[k][2],
          IF rows[k][3] = InitialContour(rows) THEN v ELSE rows[k][3]>>]

\* the initial contour of the rows is below every logl, and so is v
BelowAllLogl(rows, v) ==
    \A k \in DOMAIN rows : InitialContour(rows) < rows[k][2] /\ v < rows[k][2]

\* an array of at most MaxTwin rows and a second array that differs from it
InitTwice ==
    /\ \E n \in 1 .. MaxTwin :
         \E l \in [1 .. n -> 1 .. MaxTwin + 1], b \in [1 .. n -> 0 .. MaxTwin] :
            /\ samples = [k \in 1 .. n |-> <<k, l[k], b[k]>>]
            /\ \/ \E p \in Permutations(1 .. n) :
                     pending = <<Permuted(samples, p)>>
               \/ \E v \in 0 .. MaxTwin :
                     /\ BelowAllLogl(samples, v)
                     /\ pending = <<WithInitialContour(samples, v)>>
            /\ pending # <<samples>>
    /\ threads = <<>>
    /\ entry = "process_samples_array"
    /\ logl_warn_only = FALSE
    /\ Locals0

---------------------------------------------------------------------------

Init == InitArray \/ InitDummy \/ InitContours \/ InitScenario \/ InitTwice

---------------------------------------------------------------------------
(* Initial states: calls of check_ns_run(run, logl_warn_only), of          *)
(* check_ns_run_threads(run) and of check_ns_run_logls(run, warn_only) on  *)
(* candidate runs, which need not be what process_samples_array makes.     *)

\* what a candidate run is apart from the values in its arrays; the lengths
\* of nlive_array, thread_labels and theta are those of logl plus the extras
BaseLayout ==
    [dict |-> TRUE, keys |-> MandatoryKeys, ndarrays |-> MandatoryKeys,
     ndim |-> RunNdim, dtype |-> "int",
     nlive_extra |-> 0, labels_extra |-> 0, theta_extra |-> 0]

FloatLabels == [BaseLayout EXCEPT !.dtype = "float"]

\* the layout of a sound run, and layouts with one thing wrong
Layouts ==
    {BaseLayout,
     [BaseLayout EXCEPT !.keys = @ \cup {"output"}],
     [BaseLayout EXCEPT !.dict = FALSE],
     [BaseLayout EXCEPT !.keys = @ \ {"theta"}, !.ndarrays = @ \ {"theta"}],
     [BaseLayout EXCEPT !.keys = @ \cup {"logx"}],
     [BaseLayout EXCEPT !.ndarrays = @ \ {"logl"}],
     [BaseLayout EXCEPT !.ndim = [@ EXCEPT !["logl"] = 2]],
     [BaseLayout EXCEPT !.ndim = [@ EXCEPT !["theta"] = 1]],
     [BaseLayout EXCEPT !.nlive_extra = 1],
     [BaseLayout EXCEPT !.labels_extra = 1],
     [BaseLayout EXCEPT !.theta_extra = 1],
     FloatLabels}

\* thread labels of a candidate run: two threads at most
CandidateLabels == 0 .. 1

\* thread_min_max of a candidate run: at most two rows [birth, final]
CandidateMinMax ==
    UNION {[1 .. rows -> (({NegInf} \cup 1 .. MaxRun - 1) \X (1 .. MaxRun))] :
             rows \in 0 .. 2}

CandidateRun(layout, l, labels, min_max) ==
    [RunDict(layout.keys, layout.ndarrays, layout.ndim, layout.dtype, l,
             [k \in 1 .. Len(l) + layout.nlive_extra |-> 1],
             [k \in 1 .. Len(l) + layout.theta_extra |-> k],
             labels, min_max)
        EXCEPT !.dict = layout.dict]

\* nothing of process_samples_array has run
NoArrays ==
    /\ samples = <<>> /\ threads = <<>> /\ pending = <<>>
    /\ logl = <<>> /\ birth_logl = <<>>
    /\ NoLocals

InitCheckRun ==
    /\ \E n \in 0 .. MaxRun, layout \in Layouts :
         \E l \in [1 .. n -> 1 .. MaxRun],
            labels \in [1 .. n + layout.labels_extra -> CandidateLabels],
            min_max \in CandidateMinMax :
            run = CandidateRun(layout, l, labels, min_max)
    /\ logl_warn_only \in BOOLEAN
    /\ entry = "check_ns_run"
    /\ pc = "check_ns_run"
    /\ NoArrays

\* check_ns_run_threads reads thread_labels, thread_min_max and logl; the
\* two arrays of samples have one length
InitCheckThreads ==
    /\ \E n \in 0 .. MaxRun, layout \in {BaseLayout, FloatLabels} :
         \E l \in [1 .. n -> 1 .. MaxRun],
            labels \in [1 .. n -> CandidateLabels],
            min_max \in CandidateMinMax :
            run = CandidateRun(layout, l, labels, min_max)
    /\ logl_warn_only = FALSE
    /\ entry = "check_ns_run_threads"
    /\ pc = "check_ns_run_threads"
    /\ NoArrays

\* check_ns_run_logls reads logl alone
InitCheckLogls ==
    /\ \E n \in 0 .. MaxLogls :
         \E l \in [1 .. n -> 1 .. MaxLogls] :
            run = CandidateRun(BaseLayout, l, [k \in 1 .. n |-> 0], <<>>)
    /\ logl_warn_only \in BOOLEAN
    /\ entry = "check_ns_run_logls"
    /\ pc = "check_ns_run_logls"
    /\ NoArrays

\* thread_min_max of a candidate run of at most MaxOrdered samples
OrderedMinMax ==
    UNION {[1 .. rows ->
               (({NegInf} \cup 1 .. MaxOrdered - 1) \X (1 .. MaxOrdered))] :
             rows \in 0 .. 2}

\* check_ns_run in its default mode on runs with a sound layout and the
\* logl values 1 .. n in ascending order, with any labels and thread_min_max
InitCheckOrdered ==
    /\ \E n \in 0 .. MaxOrdered :
         \E labels \in [1 .. n -> CandidateLabels],
            min_max \in OrderedMinMax :
            run = CandidateRun(BaseLayout, [k \in 1 .. n |-> k], labels,
                               min_max)
    /\ logl_warn_only = FALSE
    /\ entry = "check_ns_run"
    /\ pc = "check_ns_run"
    /\ NoArrays

InitCheck ==
    InitCheckRun \/ InitCheckThreads \/ InitCheckLogls \/ InitCheckOrdered

NextCheck ==
    \/ CheckMembers
    \/ CheckLogls
    \/ CheckThreads

SpecCheck == InitCheck /\ [][NextCheck]_vars

Next ==
    \/ Normalize
    \/ CheckBirths
    \/ CountStarts
    \/ NextContour
    \/ SkipFirstBorn
    \/ StartThread
    \/ WalkStep
    \/ EndWalk
    \/ ReturnLabels
    \/ BeginAssemble
    \/ AssembleThread
    \/ ReturnRun
    \/ CallAgain
    \/ AddOutput
    \/ CheckMembers
    \/ CheckLogls
    \/ CheckThreads

Spec == Init /\ [][Next]_vars

---------------------------------------------------------------------------
(* batch_process_data, lines 90-116, and process_error_helper, lines      *)
(* 152-156.  parallel_apply runs process_error_helper once for each entry *)
(* of file_roots; the calls end in any order and their results are        *)
(* collected in the order they end in.                                     *)

\* entries of file_roots
MaxFiles == 3

\* the file roots there are
Roots == {"a", "b", "c"}

OSError(ln) == [exc |-> "OSError", line |-> ln]
FileNotFoundError(ln) == [exc |-> "FileNotFoundError", line |-> ln]

\* how process_polychord_run can end: it returns a run, an assertion fails,
\* or the file cannot be opened
ProcessOutcomes ==
    {NoError, AssertionError(322), OSError(192), FileNotFoundError(192)}

\* the error types that may be given as errors_to_handle
ErrorTypes == {"AssertionError", "OSError"}

\* an exception of type exc is an instance of the type cls
IsInstance(exc, cls) ==
    exc = cls \/ (exc = "FileNotFoundError" /\ cls = "OSError")

\* except errors_to_handle: the exception is an instance of a type given
Handled(exc) == \E cls \in errors_to_handle : IsInstance(exc, cls)

\* the run process_func returns for a root: its output names the root
RunOf(root) == [output |-> [file_root |-> root], error |-> ""]

\* the record process_error_helper returns for a handled error
ErrorOf(root, exc) == [output |-> [file_root |-> root], error |-> exc]

\* list.index: the first position of x in the list
Index(list, x) == Min({k \in DOMAIN list : list[k] = x})

\* the key data is sorted by
SortKey(x) == Index(file_roots, x.output.file_root)

\* the position sorted() gives entry r of the list: by key, equal keys in
\* the order they come in
SortedPos(list, r) ==
    1 + Cardinality({q \in DOMAIN list :
                       \/ SortKey(list[q]) < SortKey(list[r])
                       \/ SortKey(list[q]) = SortKey(list[r]) /\ q < r})

Sorted(list) ==
    [p \in DOMAIN list |->
        list[CHOOSE r \in DOMAIN list : SortedPos(list, r) = p]]

\* parallel_apply collects the results of the calls in the order the calls
\* end in, which need not be the order of file_roots
Collected(list, x) == Append(list, x)

\* batch_process_data is called with a list of roots, the error types to
\* handle (none by default), and files on which process_func ends somehow
InitBatch ==
    /\ \E n \in 1 .. MaxFiles :
         \E roots \in [1 .. n -> Roots] :
            /\ file_roots = roots
            /\ files \in [Range(roots) -> ProcessOutcomes]
            /\ running = 1 .. n
    /\ errors_to_handle \in SUBSET ErrorTypes
    /\ data = <<>> /\ result = <<>>
    /\ samples = <<>> /\ threads = <<>> /\ pending = <<>> /\ earlier = <<>>
    /\ logl = <<>> /\ birth_logl = <<>> /\ theta = <<>>
    /\ thread_start_logls = <<>> /\ thread_start_counts = <<>>
    /\ thread_labels = <<>> /\ thread_num = 0 /\ nmulti = 0 /\ i = 0
    /\ next_ind = <<>> /\ unique_threads = <<>> /\ label_pos = 0
    /\ thread_min_max = <<>> /\ delta_nlive = <<>> /\ nlive_array = <<>>
    /\ warned = 0 /\ checked = <<>> /\ msg = NoMessage
    /\ run = NoRun /\ logl_warn_only = FALSE
    /\ raised = NoError
    /\ entry = "batch_process_data"
    /\ pc = "parallel_apply"

\* one call of process_error_helper ends: with the run, with an error record
\* when the error is one to handle, and with the error otherwise, which
\* then leaves parallel_apply and batch_process_data
ProcessErrorHelper ==
    /\ pc = "parallel_apply"
    /\ \E k \in running :
         LET root == file_roots[k]
             err == files[root]
         IN  /\ running' = running \ {k}
             /\ IF err = NoError
                THEN /\ data' = Collected(data, RunOf(root))
                     /\ UNCHANGED <<pc, raised>>
                ELSE IF Handled(err.exc)
                THEN /\ data' = Collected(data, ErrorOf(root, err.exc))
                     /\ UNCHANGED <<pc, raised>>
                ELSE /\ Raise(err)
                     /\ data' = data
    /\ UNCHANGED <<arrayVars, entry, logl_warn_only, run, warned, checked, msg,
                   pending, earlier, file_roots, errors_to_handle, files,
                   result>>

\* every call has ended: data is sorted by the position of its root in
\* file_roots and the runs without an error are returned
ReturnData ==
    /\ pc = "parallel_apply"
    /\ running = {}
    /\ data' = Sorted(data)
    /\ result' = SelectSeq(Sorted(data), LAMBDA x : x.error = "")
    /\ pc' = "returned"
    /\ UNCHANGED <<arrayVars, raised, entry, logl_warn_only, run, warned,
                   checked, msg, pending, earlier, file_roots,
                   errors_to_handle, files, running>>

NextBatch == ProcessErrorHelper \/ ReturnData

SpecBatch == InitBatch /\ [][NextBatch]_vars

---------------------------------------------------------------------------
(* threads_given_birth_contours called on its own and run to its end: the *)
(* function is sequential, so whenever it has a next step it takes it.     *)

InitContoursOnly == InitContours \/ InitScenario

NextContours ==
    \/ CheckBirths
    \/ CountStarts
    \/ NextContour
    \/ SkipFirstBorn
    \/ StartThread
    \/ WalkStep
    \/ EndWalk
    \/ ReturnLabels

SpecContours ==
    InitContoursOnly /\ [][NextContours]_vars /\ WF_vars(NextContours)

---------------------------------------------------------------------------
(* Properties.  They are stated on the arguments and results alone:        *)
(* logl, birth_logl, thread_labels, thread_min_max, nlive_array, threads.  *)

\* threads_given_birth_contours has just returned thread_labels
LabelsReturned == pc = "unique_threads"

\* process_samples_array has returned the run
RunReturned == pc = "done"

Samples == DOMAIN logl

\* the samples born on contour c
Born(c) == {j \in Samples : birth_logl[j] = c}

\* the samples with label t
Labelled(t) == {j \in Samples : thread_labels[j] = t}

\* the contours other than the initial one on which samples are born
LaterContours == Range(birth_logl) \ {birth_logl[1]}

\* the sample of a non-empty set with the lowest, the highest log-likelihood
Lowest(S) == CHOOSE a \in S : \A b \in S : logl[a] <= logl[b]
Highest(S) == CHOOSE a \in S : \A b \in S : logl[b] <= logl[a]

\* C1: when threads_given_birth_contours returns, every sample has one
\* integer label and the labels used are exactly 0 .. k-1 for some k >= 1.
C1_LabelsDense ==
    LabelsReturned =>
        /\ DOMAIN thread_labels = Samples
        /\ \E k \in 1 .. Len(logl) : Range(thread_labels) = 0 .. k - 1

C1_Witness ==
    /\ LabelsReturned
    /\ Range(thread_labels) = 0 .. 2
    /\ \E j \in Samples : j > 1 /\ thread_labels[j] = 0

\* C2: in the returned labels each thread, taken in ascending logl order, is
\* a chain: every sample after the first is born on the logl of the sample
\* before it in the thread, and no sample is born on the logl of the last.
C2_ThreadsAreChains ==
    LabelsReturned =>
        \A t \in Range(thread_labels) :
            /\ \A a \in Labelled(t) :
                  LET before == {b \in Labelled(t) : logl[b] < logl[a]}
                  IN  a # Lowest(Labelled(t)) =>
                          /\ before # {}
                          /\ birth_logl[a] = logl[Highest(before)]
            /\ Born(logl[Highest(Labelled(t))]) = {}

C2_Witness ==
    /\ LabelsReturned
    /\ \E t \in Range(thread_labels) : Cardinality(Labelled(t)) >= 3
    /\ Cardinality(Range(thread_labels)) >= 2

\* C3: for every birth contour c other than the initial one, the first
\* sample in array order born on c has the label of the one sample whose
\* logl is c, and each other sample born on c is the first of its thread.
C3_FirstBornContinues ==
    LabelsReturned =>
        \A c \in LaterContours :
            /\ Cardinality({p \in Samples : logl[p] = c}) = 1
            /\ \A p \in Samples :
                  logl[p] = c => thread_labels[Min(Born(c))] = thread_labels[p]
            /\ \A j \in Born(c) \ {Min(Born(c))} :
                  \A e \in Samples : e < j => thread_labels[e] # thread_labels[j]

C3_Witness ==
    /\ LabelsReturned
    /\ \E c \in LaterContours : Cardinality(Born(c)) = 1
    /\ \E c \in LaterContours : Cardinality(Born(c)) >= 3

RECURSIVE LaterStarts(_)
\* the samples that start the threads of the split contours cs (ascending):
\* on each contour, all the samples born on it but the first, in array order
LaterStarts(cs) ==
    IF cs = <<>> THEN <<>>
    ELSE Tail(SortSet(Born(Head(cs)))) \o LaterStarts(Tail(cs))

\* the samples that start threads, in thread-start order
ExpectedStarts ==
    SortSet(Born(birth_logl[1])) \o
    LaterStarts(SortSet({c \in LaterContours : Cardinality(Born(c)) >= 2}))

\* C4: labels are numbered in thread-start order: the samples born on the
\* initial contour start threads 0, 1, ... in array order, then the split
\* contours follow in ascending order, the non-first samples born on each
\* taking the next labels in array order.
C4_LabelsInStartOrder ==
    LabelsReturned =>
        /\ thread_labels[1] = 0
        /\ \A k \in DOMAIN ExpectedStarts :
              thread_labels[ExpectedStarts[k]] = k - 1

C4_Witness ==
    /\ LabelsReturned
    /\ Cardinality(Range(thread_labels)) >= 3
    /\ Cardinality({c \in LaterContours : Cardinality(Born(c)) >= 2}) >= 2

RECURSIVE SumOver(_, _)
\* the sum of f[x] for x in S
SumOver(f, S) ==
    IF S = {} THEN 0
    ELSE LET x == CHOOSE y \in S : TRUE IN f[x] + SumOver(f, S \ {x})

\* C5: the number of distinct labels returned is the number of samples born
\* on the initial contour plus, over every other contour with at least two
\* births, the number of samples born on it less one.
C5_ThreadCount ==
    LabelsReturned =>
        Cardinality(Range(thread_labels)) =
            Cardinality(Born(birth_logl[1])) +
            SumOver([c \in LaterContours |-> Cardinality(Born(c)) - 1],
                    {c \in LaterContours : Cardinality(Born(c)) >= 2})

C5_Witness ==
    /\ LabelsReturned
    /\ Cardinality(Born(birth_logl[1])) = 2
    /\ \E c \in LaterContours : Cardinality(Born(c)) = 3
    /\ Cardinality(Range(thread_labels)) = 4

\* C6: in a returned run, for every thread label t, thread_min_max[t,1] is
\* the logl of the last sample labelled t, and thread_min_max[t,0] is -inf
\* when the first sample labelled t is born on the birth contour of sample 0
\* and else is that sample's birth contour.
C6_ThreadMinMax ==
    RunReturned =>
        /\ Len(thread_min_max) = Cardinality(Range(thread_labels))
        /\ \A t \in Range(thread_labels) :
              LET first == Min(Labelled(t))
                  last == CHOOSE a \in Labelled(t) : \A b \in Labelled(t) : b <= a
              IN  /\ thread_min_max[t + 1][2] = logl[last]
                  /\ birth_logl[first] = birth_logl[1] =>
                        thread_min_max[t + 1][1] = NegInf
                  /\ birth_logl[first] # birth_logl[1] =>
                        thread_min_max[t + 1][1] = birth_logl[first]

C6_Witness ==
    /\ RunReturned
    /\ \E t \in Range(thread_labels) :
          /\ Cardinality(Labelled(t)) >= 2
          /\ thread_min_max[t + 1][1] # NegInf
    /\ \E t \in Range(thread_labels) :
          /\ Cardinality(Labelled(t)) >= 2
          /\ thread_min_max[t + 1][1] = NegInf

\* the threads live at sample j according to the rows of min_max
LiveAt(min_max, j) ==
    {t \in DOMAIN min_max : min_max[t][1] < logl[j] /\ logl[j] <= min_max[t][2]}

\* C7: in a returned run nlive_array[i] is the number of threads t with
\* thread_min_max[t,0] < logl[i] <= thread_min_max[t,1].
C7_NliveCountsLiveThreads ==
    RunReturned =>
        /\ DOMAIN nlive_array = Samples
        /\ \A j \in Samples :
              nlive_array[j] = Cardinality(LiveAt(thread_min_max, j))

C7_Witness ==
    /\ RunReturned
    /\ \E j \in Samples : j > 1 /\ nlive_array[j] > nlive_array[j - 1]
    /\ \E j \in Samples : j > 1 /\ nlive_array[j] < nlive_array[j - 1]

\* C8: in a returned run nlive_array[i] >= 0 for every i.
C8_NliveNotNegative ==
    RunReturned => \A j \in DOMAIN nlive_array : nlive_array[j] >= 0

C8_Witness ==
    /\ RunReturned
    /\ threads = <<>>
    /\ Len(nlive_array) = 3
    /\ nlive_array[1] = 2
    /\ nlive_array[3] = 1

\* the run was built from threads by get_dummy_dead_points
FromThreads == threads # <<>>

\* the label of the thread the sample at position j was built in
TruthLabel(j) ==
    LET t == CHOOSE u \in DOMAIN threads : logl[j] \in Range(threads[u].logl)
    IN  threads[t].thread_labels

\* the labels recovered are the labels of the threads up to a bijection
SameUpToRelabelling ==
    \A a, b \in Samples :
        (thread_labels[a] = thread_labels[b]) <=> (TruthLabel(a) = TruthLabel(b))

\* C9 (as stated): whatever the order of the samples born on a shared
\* contour, the run of a synthetic array has the labels of the threads it
\* was built from, up to a bijection.
C9_RoundTripAnyOrder ==
    RunReturned /\ FromThreads => SameUpToRelabelling

\* every thread u born on the logl of a point of a thread t is born on a
\* point that is not the last of t, and the first point of u is above the
\* next point of t
LowestBornContinues ==
    \A t, u \in DOMAIN threads :
        \A k \in DOMAIN threads[t].logl :
            threads[u].thread_min_max[1] = threads[t].logl[k] =>
                /\ k < Len(threads[t].logl)
                /\ threads[t].logl[k + 1] < threads[u].logl[1]

\* C9 (amended): the labels are recovered up to a bijection when, on
\* every contour, the sample with the lowest logl born on it is the next
\* point of the thread whose point lies on the contour.
C9_RoundTripLowestContinues ==
    RunReturned /\ FromThreads /\ LowestBornContinues => SameUpToRelabelling

C9_Witness ==
    /\ RunReturned
    /\ FromThreads
    /\ LowestBornContinues
    /\ Len(threads) >= 3
    /\ \E u \in DOMAIN threads :
          /\ threads[u].thread_min_max[1] # NegInf
          /\ Len(threads[u].logl) >= 2
    /\ SameUpToRelabelling

\* C10: the run of a synthetic array has at each sample the number of live
\* threads of the threads it was built from, also where the labels
\* recovered differ from theirs.
C10_RoundTripNlive ==
    RunReturned /\ FromThreads =>
        /\ DOMAIN nlive_array = Samples
        /\ \A j \in Samples :
              nlive_array[j] =
                  Cardinality(LiveAt([t \in DOMAIN threads |->
                                         threads[t].thread_min_max], j))

\* a thread u is born on a point of a thread t that is not the last of t,
\* and the first point of u is below the next point of t
TieBreakDiffers ==
    \E t, u \in DOMAIN threads :
        \E k \in 1 .. Len(threads[t].logl) - 1 :
            /\ threads[u].thread_min_max[1] = threads[t].logl[k]
            /\ threads[u].logl[1] < threads[t].logl[k + 1]

C10_Witness ==
    /\ RunReturned
    /\ FromThreads
    /\ TieBreakDiffers
    /\ ~SameUpToRelabelling
    /\ \E j \in Samples : nlive_array[j] >= 3

---------------------------------------------------------------------------
(* The static and the dynamic cases. *)

\* there are samples and all of them are born on the initial contour
AllOnInitialContour ==
    /\ birth_logl # <<>>
    /\ \A k \in DOMAIN birth_logl : birth_logl[k] = birth_logl[1]

\* C11 (as stated): when process_samples_array returns the run of n >= 1
\* samples all born on the initial contour, every sample has the label 0,
\* thread_min_max[0, 0] is -inf and nlive_array is constant.
C11_OneThread ==
    (RunReturned /\ AllOnInitialContour) =>
        /\ \A k \in Samples : thread_labels[k] = 0
        /\ thread_min_max[1][1] = NegInf
        /\ \A k \in Samples : nlive_array[k] = nlive_array[1]

\* C11 (amended): when process_samples_array returns the run of n >= 1
\* samples all born on the initial contour, each sample is a thread of its
\* own: the labels are 0 .. n-1 in ascending order of logl, every thread is
\* born on -inf and ends on its sample, and nlive_array falls from n by one
\* at each sample.
C11_OneThreadPerSample ==
    (RunReturned /\ AllOnInitialContour) =>
        /\ thread_labels = PyRange(Len(logl))
        /\ thread_min_max = [t \in Samples |-> <<NegInf, logl[t]>>]
        /\ nlive_array = [k \in Samples |-> Len(logl) - k + 1]

C11_Witness ==
    /\ RunReturned
    /\ AllOnInitialContour
    /\ Len(logl) >= 3

\* the run was built from an initial chain started from the prior and a
\* second chain born on the logl of a sample of the initial chain
TwoChains ==
    /\ Len(threads) = 2
    /\ threads[1].thread_min_max[1] = NegInf
    /\ threads[2].thread_min_max[1] \in Range(threads[1].logl)

\* the place k in the array of the sample the second chain is born on, which
\* is its place in the initial chain, and the length n of the initial chain
ChainK == CHOOSE k \in DOMAIN logl : logl[k] = threads[2].thread_min_max[1]
ChainN == Len(threads[1].logl)

\* two labels, thread 1 born on the k-th sample, nlive_array 1 up to and
\* including the k-th sample and 2 at the sample after it
StepsToTwoAfterK ==
    /\ Range(thread_labels) = {0, 1}
    /\ thread_min_max[2][1] = logl[ChainK]
    /\ \A j \in 1 .. ChainK : nlive_array[j] = 1
    /\ nlive_array[ChainK + 1] = 2

\* C12 (as stated): for every k from 1 to n the run of two chains, the
\* second born on the k-th sample of the first, comes back with two labels,
\* thread_min_max[1, 0] the k-th logl and nlive_array stepping from 1 to 2
\* right after the k-th sample.
C12_TwoChainsAnyK ==
    (RunReturned /\ TwoChains) => StepsToTwoAfterK

\* C12 (amended): the same for k from 1 to n - 1; for k = n the second
\* chain comes back as the continuation of the first, with the one label 0,
\* one row of thread_min_max and nlive_array 1 throughout.
C12_TwoChainsBelowLast ==
    (RunReturned /\ TwoChains) =>
        IF ChainK < ChainN
        THEN StepsToTwoAfterK
        ELSE /\ Range(thread_labels) = {0}
             /\ Len(thread_min_max) = 1
             /\ \A j \in Samples : nlive_array[j] = 1

C12_Witness ==
    /\ RunReturned
    /\ TwoChains
    /\ 1 < ChainK /\ ChainK < ChainN
    /\ Len(threads[2].logl) >= 2

\* threads_given_birth_contours has returned the labels of the six samples
\* logl = [1, 2, 3, 4, 5, 6], birth_logl = [-inf, -inf, 1, 2, 4, 4]
ScenarioReturned ==
    /\ LabelsReturned
    /\ logl = ScenarioLogl
    /\ birth_logl = ScenarioBirth

\* C13 (as stated): in the scenario thread 0 is the samples at the indices
\* 0, 2, 3 and the first sample born on contour 4 (index 4), thread 1 the
\* sample at index 1 and thread 2 the sample at index 5.
C13_ScenarioAsStated ==
    ScenarioReturned => thread_labels = <<0, 1, 0, 0, 0, 2>>

\* C13 (amended): in the scenario thread 0 is the samples at the indices
\* 0 and 2, thread 1 the samples at the indices 1, 3 and 4 (the sample at
\* index 3 is born on the logl of the sample at index 1, and the first
\* sample born on contour 4 continues its thread), thread 2 the sample at
\* index 5.
C13_Scenario ==
    ScenarioReturned => thread_labels = <<0, 1, 0, 1, 1, 2>>

C13_Witness == ScenarioReturned

---------------------------------------------------------------------------
(* The checks of a run. *)

\* the last check called
LastChecked == IF checked = <<>> THEN "" ELSE checked[Len(checked)]

\* check_ns_run_logls was called and has raised or returned, and no check
\* was called after it
LoglsChecked == LastChecked = "check_ns_run_logls"

NonDecreasing(l) == \A j, k \in DOMAIN l : j < k => l[j] <= l[k]

HasDuplicate(l) == \E j, k \in DOMAIN l : j # k /\ l[j] = l[k]

\* C14: check_ns_run_logls(run, warn_only) raises, and then AssertionError,
\* exactly when logl is not non-decreasing or holds a duplicate and
\* warn_only is False; it gives one warning when logl is non-decreasing
\* with a duplicate and warn_only is True, and no warning otherwise.
C14_LoglsCheck ==
    LoglsChecked =>
        /\ pc = "raised" <=>
              \/ ~NonDecreasing(run.logl)
              \/ HasDuplicate(run.logl) /\ ~logl_warn_only
        /\ pc = "raised" => raised.exc = "AssertionError"
        /\ warned = IF /\ NonDecreasing(run.logl)
                       /\ HasDuplicate(run.logl)
                       /\ logl_warn_only
                    THEN 1 ELSE 0

C14_Witness ==
    /\ LoglsChecked
    /\ entry = "check_ns_run_logls"
    /\ NonDecreasing(run.logl) /\ HasDuplicate(run.logl)
    /\ Len(Unique(run.logl)) > 1
    /\ logl_warn_only
    /\ warned = 1
    /\ pc = "returned"

\* C15: when the samples file holds two samples of one logl and
\* logl_warn_only is True, process_polychord_run does not end on the
\* AssertionError for repeated logl values of process_samples_array, which
\* leaves repeated values to check_ns_run.
C15_WarnOnlyPipeline ==
    (/\ entry = "process_polychord_run"
     /\ logl_warn_only
     /\ HasDuplicate(Column(samples, 2)))
        => raised # AssertionError(323)

---------------------------------------------------------------------------
(* The checks of threads_given_birth_contours on its arguments. *)

\* the samples whose birth contour is not the initial one and is the logl
\* of no sample, or of more than one
Unmatched ==
    {k \in DOMAIN birth_logl :
        /\ birth_logl[k] # birth_logl[1]
        /\ CountEq(logl, birth_logl[k]) # 1}

\* the samples born on a contour that is not below their own logl
NotBelow == {k \in DOMAIN birth_logl : birth_logl[k] >= logl[k]}

\* threads_given_birth_contours has not yet looked at its arguments
NotYetChecked == pc = "threads_given_birth_contours"

\* C16: when a sample's birth contour differs from birth_logl[0] and is the
\* logl of no sample, or of more than one, threads_given_birth_contours
\* raises AssertionError in its first loop: it never goes on to label any
\* sample, and never returns.
C16_UnmatchedBirthRaises ==
    (Unmatched # {} /\ ~NotYetChecked) =>
        /\ pc = "raised"
        /\ raised \in {AssertionError(391), AssertionError(392)}
        /\ thread_labels = <<>>

\* a contour that is the logl of two samples
C16_Witness ==
    /\ raised = AssertionError(392)
    /\ \E k \in Unmatched : CountEq(logl, birth_logl[k]) > 1
    /\ \E k \in Unmatched : CountEq(logl, birth_logl[k]) = 0

\* C17: when some sample has birth_logl[i] >= logl[i],
\* threads_given_birth_contours raises AssertionError in its first loop,
\* before any label is assigned; so in every labelling it returns each
\* sample is born below its own logl.
C17_BirthBelowLogl ==
    /\ (NotBelow # {} /\ ~NotYetChecked) =>
          /\ pc = "raised"
          /\ raised \in {AssertionError(391), AssertionError(392)}
          /\ thread_labels = <<>>
    /\ LabelsReturned => \A k \in Samples : birth_logl[k] < logl[k]

\* a sample born on its own logl, and no other fault in the arrays
C17_Witness ==
    /\ raised = AssertionError(391)
    /\ thread_labels = <<>>
    /\ Unmatched = {}
    /\ \E k \in NotBelow : birth_logl[k] = logl[k]
    /\ \A k \in NotBelow : birth_logl[k] = logl[k]

---------------------------------------------------------------------------
(* check_ns_run_threads and check_ns_run. *)

\* check_ns_run_threads was called and has raised or returned
ThreadsChecked == LastChecked = "check_ns_run_threads"

Max(S) == CHOOSE x \in S : \A y \in S : y <= x

\* the samples of the run r with the label t
RunLabelled(r, t) == {k \in DOMAIN r.thread_labels : r.thread_labels[k] = t}

\* the labels are the integers 0 .. R-1, R the number of rows of
\* thread_min_max
DenseLabels(r) ==
    /\ r.dtype = "int"
    /\ Range(r.thread_labels) = 0 .. Len(r.thread_min_max) - 1

SomeBirthNegInf(r) ==
    \E t \in DOMAIN r.thread_min_max : r.thread_min_max[t][1] = NegInf

\* the first sample of each thread is above the thread's birth contour and
\* the last one is on the thread's final logl
ThreadEndsAgree(r) ==
    \A t \in Range(r.thread_labels) :
        /\ r.logl[Min(RunLabelled(r, t))] > r.thread_min_max[t + 1][1]
        /\ r.logl[Max(RunLabelled(r, t))] = r.thread_min_max[t + 1][2]

ThreadsSound(r) ==
    /\ DenseLabels(r)
    /\ SomeBirthNegInf(r)
    /\ ThreadEndsAgree(r)

\* C18: check_ns_run_threads(run) returns exactly when thread_labels has
\* an integer dtype, its labels are 0 .. R-1 for the R rows of
\* thread_min_max, some row has the birth -inf and, for every label t, the
\* first sample labelled t has logl > thread_min_max[t, 0] and the last has
\* logl = thread_min_max[t, 1]; otherwise it raises AssertionError.
C18_ThreadsCheck ==
    ThreadsChecked =>
        /\ pc \in {"returned", "raised"}
        /\ pc = "returned" <=> ThreadsSound(run)
        /\ pc = "raised" => raised.exc = "AssertionError"

\* accepted: two threads, the second born on the sample of the first
C18_Witness ==
    /\ ThreadsChecked
    /\ entry = "check_ns_run_threads"
    /\ pc = "returned"
    /\ Len(run.thread_min_max) = 2
    /\ \E t \in DOMAIN run.thread_min_max : run.thread_min_max[t][1] # NegInf

\* the three checks in the order check_ns_run calls them
CheckOrder ==
    <<"check_ns_run_members", "check_ns_run_logls", "check_ns_run_threads">>

\* check_ns_run(run, logl_warn_only) was called, on its own or by
\* process_polychord_run; it has raised or returned
CheckRunCalled ==
    /\ entry \in {"check_ns_run", "process_polychord_run"}
    /\ run # NoRun

CheckRunEnded ==
    /\ CheckRunCalled
    /\ pc \in {"raised", "returned"}

\* the run is a dictionary with the mandatory keys and no unexpected key,
\* its mandatory members are arrays, logl, nlive_array and thread_labels
\* are 1d of one length and theta is 2d with as many rows
MembersSound(r) ==
    /\ r.dict
    /\ MandatoryKeys \subseteq r.keys
    /\ r.keys \subseteq MandatoryKeys \cup {"output"}
    /\ MandatoryKeys \subseteq r.ndarrays
    /\ r.ndim["logl"] = 1 /\ r.ndim["nlive_array"] = 1
    /\ r.ndim["thread_labels"] = 1 /\ r.ndim["theta"] = 2
    /\ Len(r.nlive_array) = Len(r.logl)
    /\ Len(r.thread_labels) = Len(r.logl)
    /\ Len(r.theta) = Len(r.logl)

\* logl is in ascending order and, unless only a warning is asked for,
\* without repeated values
LoglsSound(r, warn_only) ==
    /\ NonDecreasing(r.logl)
    /\ warn_only \/ ~HasDuplicate(r.logl)

\* C19: check_ns_run calls the members check, the logl check and the
\* threads check in that order and stops at the first that fails: a run is
\* reported by the earliest check it violates and no later check is called;
\* a warning for repeated logl values in warn-only mode does not keep the
\* threads check from being called.
C19_CheckOrder ==
    /\ CheckRunCalled => checked = SubSeq(CheckOrder, 1, Len(checked))
    /\ CheckRunEnded =>
          IF ~MembersSound(run)
          THEN /\ pc = "raised"
               /\ checked = SubSeq(CheckOrder, 1, IF run.dict THEN 1 ELSE 0)
          ELSE IF ~LoglsSound(run, logl_warn_only)
          THEN /\ pc = "raised"
               /\ checked = SubSeq(CheckOrder, 1, 2)
          ELSE /\ checked = CheckOrder
               /\ pc = "returned" <=> ThreadsSound(run)
               /\ warned = IF HasDuplicate(run.logl) THEN 1 ELSE 0

\* a run that violates all three checks is reported by the members check
C19_Witness ==
    /\ CheckRunEnded
    /\ run.dict
    /\ ~MembersSound(run)
    /\ ~LoglsSound(run, logl_warn_only)
    /\ ~ThreadsSound(run)
    /\ pc = "raised"
    /\ checked = <<"check_ns_run_members">>

\* a warning has been given and the threads check has been called and failed
C19_WarnedThenThreads ==
    /\ CheckRunEnded
    /\ warned = 1
    /\ checked = CheckOrder
    /\ pc = "raised"

StrictlyIncreasing(l) == \A j, k \in DOMAIN l : j < k => l[j] < l[k]

\* the invariants of a run other than the one on the order of logl
RunInvariantsButOrder(r) ==
    /\ Len(r.theta) = Len(r.logl)
    /\ Len(r.thread_labels) = Len(r.logl)
    /\ Len(r.nlive_array) = Len(r.logl)
    /\ DenseLabels(r)
    /\ SomeBirthNegInf(r)
    /\ ThreadEndsAgree(r)

\* check_ns_run has returned without raising
RunAccepted == CheckRunEnded /\ pc = "returned"

\* C20 (as stated): every run on which check_ns_run returns, for either
\* value of logl_warn_only, has logl strictly increasing, arrays of one
\* length, dense labels from 0, a thread born on -inf and for every thread
\* a first sample above its birth and a last sample on its final logl.
C20_AcceptedRunInvariants ==
    RunAccepted =>
        /\ StrictlyIncreasing(run.logl)
        /\ RunInvariantsButOrder(run)

\* C20 (amended): every run on which check_ns_run returns has logl in
\* non-decreasing order, strictly increasing when logl_warn_only is False,
\* and has all the other invariants for either value of logl_warn_only.
C20_AcceptedRunInvariantsByMode ==
    RunAccepted =>
        /\ NonDecreasing(run.logl)
        /\ ~logl_warn_only => StrictlyIncreasing(run.logl)
        /\ RunInvariantsButOrder(run)

\* a run of two threads accepted when logl_warn_only is False
C20_Witness ==
    /\ RunAccepted
    /\ entry = "check_ns_run"
    /\ ~logl_warn_only
    /\ Len(run.thread_min_max) = 2

---------------------------------------------------------------------------
(* Single changes to an accepted run. *)

\* the run r with the logl of sample j set to that of sample k
SharedLogl(r, j, k) == [r EXCEPT !.logl[j] = r.logl[k]]

\* the run r with sample k given the label t
Relabelled(r, k, t) == [r EXCEPT !.thread_labels[k] = t]

\* the run r with the birth and final entries of row t swapped
SwappedRow(r, t) == [r EXCEPT !.thread_min_max[t] = <<@[2], @[1]>>]

\* check_ns_run has accepted the run in its default mode
AcceptedByDefault == RunAccepted /\ ~logl_warn_only

\* changes (a) and (c): a shared logl value is rejected by the logl check,
\* a swapped row of thread_min_max by the threads check
SharedAndSwappedRejected ==
    /\ \A j, k \in DOMAIN run.logl :
          j # k => FailingCheck(SharedLogl(run, j, k), FALSE)
                      = "check_ns_run_logls"
    /\ \A t \in DOMAIN run.thread_min_max :
          FailingCheck(SwappedRow(run, t), FALSE) = "check_ns_run_threads"

\* the labels other than its own that sample k of the run can be given
OtherLabels(r, k) == Range(r.thread_labels) \ {r.thread_labels[k]}

\* C21 (as stated): from a run accepted by check_ns_run in default mode,
\* (a) making two samples share a logl fails the logl check, (b) giving any
\* one sample a different existing label fails the threads check, and
\* (c) swapping the entries of any row of thread_min_max fails the threads
\* check.
C21_EveryChangeRejected ==
    AcceptedByDefault =>
        /\ SharedAndSwappedRejected
        /\ \A k \in DOMAIN run.thread_labels : \A t \in OtherLabels(run, k) :
              FailingCheck(Relabelled(run, k, t), FALSE)
                 = "check_ns_run_threads"

\* the mislabelling of sample k as t that the threads check can see: k is
\* the last sample of its thread, or becomes the last sample of thread t,
\* or becomes its first sample without being above the thread's birth
MislabelSeen(r, k, t) ==
    \/ k = Max(RunLabelled(r, r.thread_labels[k]))
    \/ k > Max(RunLabelled(r, t))
    \/ /\ k < Min(RunLabelled(r, t))
       /\ r.logl[k] <= r.thread_min_max[t + 1][1]

\* C21 (amended): (a) and (c) as stated; (b) giving sample k the label t
\* fails the threads check exactly when k is the last sample of its thread,
\* or lies above the last sample of thread t, or lies below the first
\* sample of thread t and not above its birth contour; any other mislabelled
\* run is accepted.
C21_ChangesRejected ==
    AcceptedByDefault =>
        /\ SharedAndSwappedRejected
        /\ \A k \in DOMAIN run.thread_labels : \A t \in OtherLabels(run, k) :
              FailingCheck(Relabelled(run, k, t), FALSE)
                 = IF MislabelSeen(run, k, t) THEN "check_ns_run_threads"
                   ELSE ""

\* an accepted run of two threads and three samples
C21_Witness ==
    /\ AcceptedByDefault
    /\ Len(run.logl) = 3
    /\ Len(run.thread_min_max) = 2
    /\ \E k \in DOMAIN run.thread_labels : \E t \in OtherLabels(run, k) :
          MislabelSeen(run, k, t)

---------------------------------------------------------------------------
(* The message of check_ns_run_logls. *)

\* the values of logl held by more than one sample
RepeatedValues(l) == {v \in Range(l) : CountEq(l, v) > 1}

\* check_ns_run_logls has found a repeated value in a sorted logl and has
\* raised AssertionError for it or given a warning
RepeatsReported ==
    /\ LoglsChecked
    /\ NonDecreasing(run.logl)
    /\ HasDuplicate(run.logl)

\* C22: the message for repeated values holds the repeated values, how
\* many times each occurs, and the indices of the samples sharing a value;
\* in particular it names both indices of two samples with one logl, also
\* when these are the whole run or every sample has the same logl.
C22_MessageDetail ==
    RepeatsReported =>
        /\ Range(msg.values) = RepeatedValues(run.logl)
        /\ msg.counts = [p \in DOMAIN msg.values |->
                            CountEq(run.logl, msg.values[p])]
        /\ \E v \in RepeatedValues(run.logl) :
              Range(msg.inds) = {k - 1 : k \in Range(WhereEq(run.logl, v))}

---------------------------------------------------------------------------
(* The run process_samples_array returns. *)

\* C23: process_samples_array returns no partial run: the dict it returns
\* has exactly the keys logl, theta, thread_labels, thread_min_max and
\* nlive_array; logl, theta, thread_labels and nlive_array have one entry
\* per input row and thread_min_max one row per thread label; when it
\* raises, no run is handed on.
C23_NoPartialRun ==
    /\ RunReturned =>
          /\ NsRun.keys = MandatoryKeys
          /\ Len(logl) = Len(samples)
          /\ Len(theta) = Len(samples)
          /\ Len(thread_labels) = Len(samples)
          /\ Len(nlive_array) = Len(samples)
          /\ Len(thread_min_max) = Cardinality(Range(thread_labels))
    /\ (pc = "raised" /\ checked = <<>>) => run = NoRun

C23_Witness ==
    /\ RunReturned
    /\ Len(samples) >= 3
    /\ Len(thread_min_max) >= 2
    /\ Len(thread_min_max) < Len(samples)

---------------------------------------------------------------------------
(* C24: the value of the initial birth contour                             *)

\* the second of two calls of process_samples_array has ended
SecondCallEnded ==
    /\ entry = "process_samples_array"
    /\ Len(earlier) = 1
    /\ pc \in {"done", "raised"}

\* the array of the second call is the array of the first with every
\* occurrence of its initial contour replaced by another value, both values
\* below the lowest logl
ContourReplaced ==
    /\ SecondCallEnded
    /\ InitialContour(samples) # InitialContour(earlier[1].samples)
    /\ BelowAllLogl(earlier[1].samples, InitialContour(samples))
    /\ samples = WithInitialContour(earlier[1].samples, InitialContour(samples))

\* the two calls ended alike: the same exception, or the same run
SameOutcome ==
    /\ Outcome.raised = earlier[1].raised
    /\ Outcome.run = earlier[1].run

BirthOfSome(rows, v) == \E k \in DOMAIN rows : rows[k][3] = v

---------------------------------------------------------------------------
(* C25: rows ordered by logl and kept intact                               *)

\* the array of the second call holds the rows of the first in another order
RowsPermuted ==
    /\ SecondCallEnded
    /\ Len(samples) = Len(earlier[1].samples)
    /\ samples # earlier[1].samples
    /\ \E p \in Permutations(DOMAIN samples) :
          samples = Permuted(earlier[1].samples, p)

\* sample j of the run is a whole row of the array
RowIntact(j) ==
    \E r \in DOMAIN samples : samples[r] = <<theta[j], logl[j], birth_logl[j]>>

\* C25: in the run process_samples_array returns logl is ascending and
\* theta[j], logl[j] and the birth contour used for sample j are one row of
\* the array, one sample for each row; and the call on the same rows in
\* another order ends in the same way, with the same run.
C25_RowsSortedIntact ==
    /\ RunReturned =>
          /\ NonDecreasing(logl)
          /\ Len(logl) = Len(samples)
          /\ Len(theta) = Len(logl) /\ Len(birth_logl) = Len(logl)
          /\ \A j \in Samples : RowIntact(j)
    /\ RowsPermuted => SameOutcome

\* a run returned from rows given in descending order of logl, the same run
\* as from the rows in another order
C25_Witness ==
    /\ RowsPermuted
    /\ RunReturned
    /\ Len(samples) = 2
    /\ samples[1][2] > samples[2][2]
    /\ samples[1][3] # samples[2][3]
    /\ earlier[1].run # NoRun

---------------------------------------------------------------------------
(* C26: batch_process_data                                                 *)

\* the positions in file_roots whose file is processed into a run
Processed == {k \in DOMAIN file_roots : files[file_roots[k]] = NoError}

\* the positions whose processing raises an error that is not to be handled
Unhandled ==
    {k \in DOMAIN file_roots :
        files[file_roots[k]] # NoError /\ ~Handled(files[file_roots[k]].exc)}

\* the runs of the files processed into a run, in the order of file_roots
RunsInOrder ==
    LET pos == SortSet(Processed)
    IN  [p \in DOMAIN pos |-> RunOf(file_roots[pos[p]])]

BatchReturned == entry = "batch_process_data" /\ pc = "returned"

BatchRaised == entry = "batch_process_data" /\ pc = "raised"

\* an error propagates only when it is not one to handle, and when some
\* file raises such an error batch_process_data does not return
ErrorsPropagate ==
    /\ BatchRaised =>
          \E k \in Unhandled : raised = files[file_roots[k]]
    /\ BatchReturned => Unhandled = {}

\* C26: batch_process_data returns the runs of the files that were processed
\* without error in the order of file_roots, whatever order the calls ended
\* in, leaving out the files whose error is one to handle; an error that is
\* not one to handle propagates.
C26_OrderOfFileRoots ==
    /\ BatchReturned => result = RunsInOrder
    /\ ErrorsPropagate

\* no root is given twice
DistinctRoots ==
    \A j, k \in DOMAIN file_roots : file_roots[j] = file_roots[k] => j = k

\* the same when no root is given twice; in every case the result holds the
\* run of each processed file once for each time its root is given
C26_DistinctRoots ==
    /\ BatchReturned /\ DistinctRoots => result = RunsInOrder
    /\ BatchReturned =>
          \A root \in Roots :
             CountEq([p \in DOMAIN result |-> result[p].output.file_root], root)
                = Cardinality({k \in Processed : file_roots[k] = root})
    /\ ErrorsPropagate

\* three distinct roots whose calls ended in the reverse order, the second
\* left out for a handled error
C26_Witness ==
    /\ BatchReturned
    /\ file_roots = <<"a", "b", "c">>
    /\ files["b"] = FileNotFoundError(192)
    /\ errors_to_handle = {"OSError"}
    /\ result = <<RunOf("a"), RunOf("c")>>

---------------------------------------------------------------------------
(* C27: the run process_samples_array returns passes check_ns_run          *)

\* process_polychord_run has handed the run to check_ns_run in default mode
CheckedByDefault ==
    /\ entry = "process_polychord_run"
    /\ run # NoRun
    /\ ~logl_warn_only

\* C27: every run process_samples_array returns is accepted by check_ns_run
\* in default mode: none of the three checks raises on it and none warns;
\* and check_ns_run, called on it by process_polychord_run, neither raises
\* nor warns and returns.
C27_ReturnedRunAccepted ==
    /\ RunReturned =>
          /\ FailingCheck(NsRun, FALSE) = ""
          /\ LoglsWarnings(NsRun, FALSE) = 0
    /\ CheckedByDefault =>
          /\ pc \in {"check_ns_run", "check_ns_run_logls",
                     "check_ns_run_threads", "returned"}
          /\ raised = NoError
          /\ warned = 0

\* check_ns_run has returned on a run of two threads, one born on a sample
\* of the other
C27_Witness ==
    /\ CheckedByDefault
    /\ pc = "returned"
    /\ checked = CheckOrder
    /\ Len(run.thread_min_max) = 2
    /\ \E t \in 1 .. 2 : run.thread_min_max[t][1] # NegInf

---------------------------------------------------------------------------
(* C28: the assertions after the precondition loop                         *)

\* the lines of the assertions of threads_given_birth_contours that follow
\* the precondition loop
LaterAssertions == {408, 414, 419, 426, 430}

\* the precondition loop of lines 390-392 has passed
PreconditionPassed ==
    pc \in {"count_starts", "for_start_ind", "while", "unique_threads"}

\* C28: once the precondition loop has passed, threads_given_birth_contours
\* raises at none of its later assertions: no sample is given a label
\* twice, none is left without one, and the labels returned are exactly
\* 0 .. sum(thread_start_counts) - 1.
C28_LaterAssertionsPass ==
    /\ raised.line \notin LaterAssertions
    /\ pc = "for_start_ind" /\ thread_start_counts # <<>> =>
          thread_num <= Sum(thread_start_counts)
    /\ LabelsReturned =>
          /\ \A j \in Samples : thread_labels[j] # NaN
          /\ Range(thread_labels) = 0 .. Sum(thread_start_counts) - 1

\* labels returned for threads started on two contours, from a direct call
C28_Witness ==
    /\ LabelsReturned
    /\ entry = "threads_given_birth_contours"
    /\ Len(thread_start_logls) = 2
    /\ Len(logl) >= 3

---------------------------------------------------------------------------
(* C29: the number of live points                                          *)

\* C29: in every run process_samples_array returns nlive_array[j] >= 1 for
\* every sample j, the thread of j being one of the nlive_array[j] threads
\* live at j, and the cumulative value that is discarded, the sum of all of
\* delta_nlive, is 0.
C29_NliveAtLeastOne ==
    RunReturned =>
        /\ Len(nlive_array) = Len(logl)
        /\ \A j \in Samples :
              /\ nlive_array[j] >= 1
              /\ thread_labels[j] + 1 \in LiveAt(thread_min_max, j)
              /\ nlive_array[j] = Cardinality(LiveAt(thread_min_max, j))
        /\ Len(delta_nlive) = Len(logl) + 1
        /\ Sum(delta_nlive) = 0

\* a run whose number of live points rises to 2 and falls back to 1
C29_Witness ==
    /\ RunReturned
    /\ Len(nlive_array) >= 3
    /\ nlive_array[1] = 1
    /\ \E j \in Samples : nlive_array[j] = 2
    /\ nlive_array[Len(nlive_array)] = 1

---------------------------------------------------------------------------
(* C30: the forward walk ends                                              *)

\* the walk is at a sample: the one the while loop labels next
AtSample == pc = "while" /\ next_ind # <<>>

\* the samples the walk under way has passed
Walked == {j \in Samples : thread_labels[j] = thread_num}

\* every sample the walk has passed lies below the sample it is at
WalkedBelow == AtSample => \A j \in Walked : logl[j] < logl[next_ind[1]]

\* a pass of the while loop that goes on to a further sample goes to one of
\* strictly greater logl
StepsUp ==
    AtSample /\ AtSample' => logl'[next_ind'[1]] > logl[next_ind[1]]

\* threads_given_birth_contours has returned the labels or raised
ContoursEnded == pc \in {"unique_threads", "raised"}

\* C30: the forward walk of threads_given_birth_contours terminates on
\* every input: every pass of the while loop moves to a sample of strictly
\* greater logl than all the samples the walk has passed, so a walk over n
\* samples makes at most n - 1 steps, and the function ends by returning
\* the labels or by raising, never looping forever.
C30_WalkTerminates ==
    /\ []WalkedBelow
    /\ [][StepsUp]_vars
    /\ <>ContoursEnded

\* a walk that has passed two samples and is at a third
C30_Witness ==
    /\ AtSample
    /\ Cardinality(Walked) = 2
    /\ next_ind[1] \notin Walked

====
